---- MODULE Spec2Model ----
(***************************************************************************)
(* Model of the search-index builder (build-search-db): the section        *)
(* parser, the keyword categorizer, the batch writer and the category      *)
(* index, with the SQLite store seen as committed tables plus the state of *)
(* the open transaction, and of the projection of the store that the       *)
(* visualization server sends (extractGraphData).                          *)
(*                                                                         *)
(* A JavaScript string is a sequence of one-character strings; null is     *)
(* Null.                                                                   *)
(***************************************************************************)
EXTENDS Integers, Sequences, FiniteSets, TLC

VARIABLES
    content,    \* SpecSections: the markdown text handed to extractSections
    sections,   \* SpecSections: the array extractSections returned
    ppc,        \* SpecSections: "input" before the call, "done" after it
    text,       \* SpecCategories: the text handed to extractCategories
    categories, \* SpecCategories: the object extractCategories returned
    cpc,        \* SpecCategories: "input" before the call, "done" after it
    markdown,   \* SpecLinks: the content of the file being processed
    linkRows,   \* SpecLinks: the link rows pushed for the file
    lpc,        \* SpecLinks: "input" before the file is processed, "done" after
    files,      \* the markdown files: name and content, or Unreadable
    db,         \* the committed state of docs.db, what any reader sees
    tx,         \* the open transaction of the builder's connection
    pc,         \* where main is
    cursor,     \* the index of the loop main is in
    batch,      \* docsToInsert, sectionsToInsert, relationshipsToInsert, keywordsToProcess
    ranked,     \* docCategories and sectionCategories of createCategoryIndex
    outcome,    \* "none", "running", "success" (exit code 0) or "failed" (exit code 1)
    rolledBack, \* a ROLLBACK was executed in this run
    startDb,    \* the committed state when this run started; after a run that
                \* ended with exit code 0, the committed state it left
    graph,      \* the last answer of the visualization server to /api/graph-data
    tieBreak    \* SpecRerun: the category this build of SQLite numbered 1 for
                \* each node whose highest count several categories share

sectionVars == <<content, sections, ppc>>
categoryVars == <<text, categories, cpc>>
linkVars == <<markdown, linkRows, lpc>>
runVars ==
    <<files, db, tx, pc, cursor, batch, ranked, outcome, rolledBack, startDb, graph,
      tieBreak>>
vars == <<sectionVars, categoryVars, linkVars, runVars>>

----------------------------------------------------------------------------
(* Strings *)

Null == <<"null">>
NL == "\n"

Str1(a) == <<a>>
Str2(a, b) == <<a, b>>
Str3(a, b, c) == <<a, b, c>>

Spaces == {" ", "\t", "\n"}

\* \s of the regular expressions
IsSpace(c) == c \in Spaces

Min(S) == CHOOSE x \in S : \A y \in S : x <= y
Max(S) == CHOOSE x \in S : \A y \in S : y <= x

RECURSIVE Join(_, _)
\* Array.prototype.join
Join(parts, sep) ==
    IF parts = <<>> THEN <<>>
    ELSE IF Len(parts) = 1 THEN parts[1]
    ELSE parts[1] \o sep \o Join(Tail(parts), sep)

RECURSIVE SplitFrom(_, _, _)
SplitFrom(s, i, cur) ==
    IF i > Len(s) THEN <<cur>>
    ELSE IF s[i] = NL THEN <<cur>> \o SplitFrom(s, i + 1, <<>>)
    ELSE SplitFrom(s, i + 1, Append(cur, s[i]))

\* content.split('\n'): never empty, the empty text gives one empty line
SplitLines(s) == SplitFrom(s, 1, <<>>)

RECURSIVE TrimStart(_)
TrimStart(s) == IF s # <<>> /\ IsSpace(Head(s)) THEN TrimStart(Tail(s)) ELSE s

RECURSIVE TrimEnd(_)
TrimEnd(s) ==
    IF s # <<>> /\ IsSpace(s[Len(s)]) THEN TrimEnd(SubSeq(s, 1, Len(s) - 1)) ELSE s

\* String.prototype.trim
Trim(s) == TrimEnd(TrimStart(s))

----------------------------------------------------------------------------
(* extractSections *)

MaxHeaderLevel == 6

RECURSIVE LeadingHashes(_)
LeadingHashes(line) ==
    IF line # <<>> /\ Head(line) = "#" THEN 1 + LeadingHashes(Tail(line)) ELSE 0

AfterHashes(line) == SubSeq(line, LeadingHashes(line) + 1, Len(line))

\* line.match(/^(#{1,6})\s+(.+)$/): one to six '#', at least one blank, and at
\* least one more character (which may itself be a blank)
headerMatch(line) ==
    /\ LeadingHashes(line) >= 1
    /\ LeadingHashes(line) <= MaxHeaderLevel
    /\ Len(AfterHashes(line)) >= 2
    /\ IsSpace(AfterHashes(line)[1])

\* headerMatch[1].length
headerLevel(line) == LeadingHashes(line)

\* headerMatch[2].trim()
headerTitle(line) == Trim(AfterHashes(line))

\* the currentSection before the first header
InitialSection ==
    [title |-> <<>>, content |-> <<>>, level |-> 0, parent_id |-> Null,
     section_path |-> <<>>]

\* the record pushed to sections for currentSection
SavedSection(cur) ==
    [title |-> cur.title,
     content |-> Join(cur.content, Str1(NL)),
     level |-> cur.level,
     parent_id |-> cur.parent_id,
     section_path |-> Join(cur.section_path, Str3(" ", ">", " "))]

SaveIfHeader(secs, cur) ==
    IF Len(cur.content) > 0 /\ cur.level > 0 THEN Append(secs, SavedSection(cur)) ELSE secs

\* if (currentSection.content.length > 0) sections.push(...)
SaveIfContent(secs, cur) ==
    IF Len(cur.content) > 0 THEN Append(secs, SavedSection(cur)) ELSE secs

PopWhileGT(top, level) == top.level > level

\* the test of the loop that pops the section stack
PopWhileGE(top, level) == top.level >= level

RECURSIVE PopStack(_, _)
\* while (stack.length > 0 && stack[top].level >= level) stack.pop()
PopStack(stack, level) ==
    IF Len(stack) > 0 /\ PopWhileGE(stack[Len(stack)], level)
    THEN PopStack(SubSeq(stack, 1, Len(stack) - 1), level)
    ELSE stack

StackTitles(stack) == [i \in 1..Len(stack) |-> stack[i].title]

\* the currentSection opened by a header line
OpenedSection(stack, level, title) ==
    [title |-> title,
     content |-> <<>>,
     level |-> level,
     parent_id |-> IF Len(stack) > 0 THEN stack[Len(stack)].title ELSE Null,
     section_path |-> Append(StackTitles(stack), title)]

\* one iteration of the loop over the lines
SectionStep(st, line) ==
    IF headerMatch(line)
    THEN LET level == headerLevel(line)
             title == headerTitle(line)
             stack == PopStack(st.sectionStack, level)
         IN  [sections |-> SaveIfContent(st.sections, st.currentSection),
              currentSection |-> OpenedSection(stack, level, title),
              sectionStack |-> Append(stack, [title |-> title, level |-> level])]
    ELSE [st EXCEPT !.currentSection.content = Append(@, line)]

RECURSIVE ScanLines(_, _, _)
ScanLines(lines, i, st) ==
    IF i > Len(lines) THEN st ELSE ScanLines(lines, i + 1, SectionStep(st, lines[i]))

extractSections(s) ==
    LET st == ScanLines(SplitLines(s), 1,
                        [sections |-> <<>>, currentSection |-> InitialSection,
                         sectionStack |-> <<>>])
    IN  SaveIfContent(st.sections, st.currentSection)

----------------------------------------------------------------------------
(* extractCategories *)

UpperCase == <<"A", "B", "G", "S", "U">>
LowerCase == <<"a", "b", "g", "s", "u">>

Lower(c) ==
    IF \E i \in 1..Len(UpperCase) : UpperCase[i] = c
    THEN LowerCase[CHOOSE i \in 1..Len(UpperCase) : UpperCase[i] = c]
    ELSE c

\* String.prototype.toLowerCase
toLowerCase(s) == [i \in 1..Len(s) |-> Lower(s[i])]

\* the vocabulary (keyword-categories.json), in its declared order
keywordCategories ==
    << [category |-> "User Management", terms |-> << Str1("a") >>],
       [category |-> "Integration", terms |-> << Str1("b"), Str2("a", "b") >>] >>

Categories == { keywordCategories[i].category : i \in 1..Len(keywordCategories) }

NonWordChars == {" ", "\t", NL, "#", "-", ".", ">", "(", ")", "[", "]"}

\* \w of the regular expression
IsWordChar(c) == c \notin NonWordChars

WordAt(s, i) == i >= 1 /\ i <= Len(s) /\ IsWordChar(s[i])

\* \b before position i
Boundary(s, i) == WordAt(s, i - 1) # WordAt(s, i)

\* one alternative of \b(t1|t2|...)\b matches at i, flag i
TermAt(s, i, term) ==
    /\ i + Len(term) - 1 <= Len(s)
    /\ toLowerCase(SubSeq(s, i, i + Len(term) - 1)) = toLowerCase(term)
    /\ Boundary(s, i + Len(term))

\* length of the match of the pattern at i, 0 when there is none: the first
\* alternative, in the order of the term list, that matches
MatchLenAt(s, i, terms) ==
    IF ~Boundary(s, i) \/ \A k \in 1..Len(terms) : ~TermAt(s, i, terms[k])
    THEN 0
    ELSE LET k == CHOOSE k \in 1..Len(terms) :
                      /\ TermAt(s, i, terms[k])
                      /\ \A j \in 1..(k - 1) : ~TermAt(s, i, terms[j])
         IN  Len(terms[k])

RECURSIVE CountFrom(_, _, _)
\* the matches found from position i on: the scan resumes after each match, so
\* matches do not overlap
CountFrom(s, i, terms) ==
    LET starts == { j \in i..Len(s) : MatchLenAt(s, j, terms) > 0 }
    IN  IF starts = {} THEN 0
        ELSE 1 + CountFrom(s, Min(starts) + MatchLenAt(s, Min(starts), terms), terms)

\* normalizedText.match(pattern).length, 0 when match returns null
MatchCount(s, terms) == CountFrom(s, 1, terms)

\* Math.max(normalizedText.length, 1)
TextLength(s) == IF Len(s) > 1 THEN Len(s) ELSE 1

(* A score x is kept as the exact fraction num/den of its square, so that   *)
(* count / Math.sqrt(textLength / 100) is 100 * count^2 / textLength.       *)
ScoreScale == 100

Ratio(count, textLength) ==
    [num |-> ScoreScale * count * count, den |-> textLength]

One == [num |-> 1, den |-> 1]

LessEq(p, q) == p.num * q.den <= q.num * p.den

NoClamp(x) == x

\* Math.min(x, 1)
MinWithOne(x) == IF LessEq(x, One) THEN x ELSE One

\* Math.min(count / Math.sqrt(textLength / 100), 1)
Score(count, textLength) == MinWithOne(Ratio(count, textLength))

RECURSIVE CategoriesFrom(_, _, _)
CategoriesFrom(normalizedText, textLength, k) ==
    IF k > Len(keywordCategories) THEN <<>>
    ELSE LET count == MatchCount(normalizedText, keywordCategories[k].terms)
             rest == CategoriesFrom(normalizedText, textLength, k + 1)
         IN  IF count > 0
             THEN <<[category |-> keywordCategories[k].category,
                     count |-> count,
                     score |-> Score(count, textLength)]>> \o rest
             ELSE rest

\* the entries of the returned object, in insertion order
extractCategories(t) ==
    CategoriesFrom(toLowerCase(t), TextLength(toLowerCase(t)), 1)

----------------------------------------------------------------------------
(* extractTitle, findInternalLinks *)

LineStart(s, i) == i = 1 \/ s[i - 1] = NL

\* the end of the line that position i is on
LineEnd(s, i) ==
    IF \E j \in i..Len(s) : s[j] = NL
    THEN Min({ j \in i..Len(s) : s[j] = NL }) - 1
    ELSE Len(s)

\* where (.+) starts when /^#\s+(.+)$/m matches with its '#' at i, 0 when it
\* does not match there: \s+ takes blanks and line ends, as many as leave one
\* character of a line for (.+)
TitleStart(s, i) ==
    LET starts == { p \in (i + 2)..Len(s) :
                        /\ \A q \in (i + 1)..(p - 1) : IsSpace(s[q])
                        /\ s[p] # NL }
    IN  IF LineStart(s, i) /\ s[i] = "#" /\ starts # {} THEN Max(starts) ELSE 0

\* content.match(/^#\s+(.+)$/m): the first match, trimmed, or ''
extractTitle(s) ==
    LET at == { i \in 1..Len(s) : TitleStart(s, i) > 0 }
    IN  IF at = {} THEN <<>>
        ELSE LET p == TitleStart(s, Min(at))
             IN  Trim(SubSeq(s, p, LineEnd(s, p)))

\* the first index >= i holding character c, 0 if none
IndexOf(s, c, i) ==
    IF \E j \in i..Len(s) : s[j] = c
    THEN Min({ j \in i..Len(s) : s[j] = c })
    ELSE 0

\* the match of /\[([^\]]+)\]\(([^)]+)\)/ starting at i: <<close of the text,
\* close of the url>>, or <<0, 0>>
LinkAt(s, i) ==
    LET j == IndexOf(s, "]", i + 1)
        k == IF j = 0 THEN 0 ELSE IndexOf(s, ")", j + 2)
    IN  IF /\ s[i] = "["
           /\ j > i + 1
           /\ j + 1 <= Len(s)
           /\ s[j + 1] = "("
           /\ k > j + 2
        THEN <<j, k>>
        ELSE <<0, 0>>

EndsWith(s, suffix) ==
    /\ Len(s) >= Len(suffix)
    /\ SubSeq(s, Len(s) - Len(suffix) + 1, Len(s)) = suffix

StartsWith(s, prefix) ==
    /\ Len(s) >= Len(prefix)
    /\ SubSeq(s, 1, Len(prefix)) = prefix

DotMd == <<".", "m", "d">>
Http == <<"h", "t", "t", "p">>

EndsWithMd(url) == EndsWith(url, DotMd)

\* url.endsWith('.md') && !url.startsWith('http')
IsInternalLink(url) == EndsWith(url, DotMd) /\ ~StartsWith(url, Http)

RECURSIVE LinksFrom(_, _)
\* the exec loop: the leftmost match from i on, then on from its end
LinksFrom(s, i) ==
    LET at == { p \in i..Len(s) : LinkAt(s, p)[2] > 0 }
    IN  IF at = {} THEN <<>>
        ELSE LET p == Min(at)
                 j == LinkAt(s, p)[1]
                 k == LinkAt(s, p)[2]
                 url == SubSeq(s, j + 2, k - 1)
                 link == [text |-> SubSeq(s, p + 1, j - 1), target |-> url]
             IN  (IF IsInternalLink(url) THEN <<link>> ELSE <<>>)
                     \o LinksFrom(s, k + 1)

findInternalLinks(s) == LinksFrom(s, 1)

----------------------------------------------------------------------------
(* processAllFiles, up to the batch arrays *)

\* the result of fs.readFile when it throws
Unreadable == <<"EIO">>

RECURSIVE Dashes(_)
\* replace(/\s+/g, '-')
Dashes(s) ==
    IF s = <<>> THEN <<>>
    ELSE IF IsSpace(Head(s))
         THEN <<"-">> \o Dashes(TrimStart(s))
         ELSE <<Head(s)>> \o Dashes(Tail(s))

\* `${relativePath}#${section.title.toLowerCase().replace(/\s+/g, '-')}`
SectionId(relativePath, section) ==
    relativePath \o <<"#">> \o Dashes(toLowerCase(section.title))

DocRow(relativePath, s, secs) ==
    [path |-> relativePath,
     content |-> s,
     title |-> extractTitle(s),
     tags |-> <<>>,
     section_path |-> Join([i \in 1..Len(secs) |-> secs[i].title],
                           Str3(" ", ">", " "))]

SectionRow(relativePath, section) ==
    [doc_path |-> relativePath,
     section_id |-> SectionId(relativePath, section),
     title |-> section.title,
     content |-> section.content,
     level |-> section.level,
     parent_id |-> section.parent_id,
     section_path |-> section.section_path]

SectionKeywords(relativePath, section) ==
    [nodeId |-> SectionId(relativePath, section),
     categories |-> extractCategories(section.title \o <<" ">> \o section.content)]

LinkRelationship(relativePath, link) ==
    [source_id |-> relativePath, target_id |-> link.target,
     relationship_type |-> "link"]

DocToSection(relativePath, sectionId) ==
    [source_id |-> relativePath, target_id |-> sectionId,
     relationship_type |-> "category"]

SectionToDoc(relativePath, sectionId) ==
    [source_id |-> sectionId, target_id |-> relativePath,
     relationship_type |-> "category"]

OnlyDocToSection(relativePath, sectionId) ==
    << DocToSection(relativePath, sectionId) >>

\* the two rows pushed for one section of a document
SectionRelationships(relativePath, sectionId) ==
    << DocToSection(relativePath, sectionId),
       SectionToDoc(relativePath, sectionId) >>

RECURSIVE Flatten(_)
Flatten(seqs) == IF seqs = <<>> THEN <<>> ELSE Head(seqs) \o Flatten(Tail(seqs))

EmptyBatch ==
    [docsToInsert |-> <<>>, sectionsToInsert |-> <<>>,
     relationshipsToInsert |-> <<>>, keywordsToProcess |-> <<>>]

\* the body of the loop over the files, for a file that could be read
WithFile(acc, file) ==
    LET relativePath == file.name
        secs == extractSections(file.content)
        links == findInternalLinks(file.content)
    IN  [docsToInsert |->
             Append(acc.docsToInsert, DocRow(relativePath, file.content, secs)),
         sectionsToInsert |->
             acc.sectionsToInsert
                 \o [i \in 1..Len(secs) |-> SectionRow(relativePath, secs[i])],
         keywordsToProcess |->
             acc.keywordsToProcess
                 \o <<[nodeId |-> relativePath,
                       categories |-> extractCategories(file.content)]>>
                 \o [i \in 1..Len(secs) |-> SectionKeywords(relativePath, secs[i])],
         relationshipsToInsert |->
             acc.relationshipsToInsert
                 \o [i \in 1..Len(links) |-> LinkRelationship(relativePath, links[i])]
                 \o Flatten([i \in 1..Len(secs) |->
                        SectionRelationships(relativePath,
                                             SectionId(relativePath, secs[i]))])]

RECURSIVE BatchOfEveryFile(_, _, _)
BatchOfEveryFile(fs, i, acc) ==
    IF i > Len(fs) THEN acc
    ELSE BatchOfEveryFile(fs, i + 1, WithFile(acc, fs[i]))

RECURSIVE BatchFrom(_, _, _)
\* a file that cannot be read is reported and skipped
BatchFrom(fs, i, acc) ==
    IF i > Len(fs) THEN acc
    ELSE BatchFrom(fs, i + 1,
                   IF fs[i].content = Unreadable THEN acc
                   ELSE WithFile(acc, fs[i]))

BatchOf(fs) == BatchFrom(fs, 1, EmptyBatch)

----------------------------------------------------------------------------
(* The store: the tables of docs.db and their rows, in rowid order *)

TableOrder == <<"docs", "sections", "relationships", "keywords", "node_keywords">>

\* a database file without any table
FreshDb ==
    [tables |-> {}, docs |-> <<>>, sections |-> <<>>, relationships |-> <<>>,
     keywords |-> <<>>, node_keywords |-> <<>>]

\* the rows a reader finds, table by table
Rows(store) ==
    [docs |-> store.docs, sections |-> store.sections,
     relationships |-> store.relationships, keywords |-> store.keywords,
     node_keywords |-> store.node_keywords]

NoRows == Rows(FreshDb)

\* DROP TABLE IF EXISTS / DELETE FROM
WithoutRows(store, table) ==
    CASE table = "docs" -> [store EXCEPT !.docs = <<>>]
      [] table = "sections" -> [store EXCEPT !.sections = <<>>]
      [] table = "relationships" -> [store EXCEPT !.relationships = <<>>]
      [] table = "keywords" -> [store EXCEPT !.keywords = <<>>]
      [] table = "node_keywords" -> [store EXCEPT !.node_keywords = <<>>]

DropTableIfExists(store, table) ==
    [WithoutRows(store, table) EXCEPT !.tables = @ \ {table}]

\* the CREATE statements of initializeDb, the first n of them
CreateTables(store, n) ==
    [store EXCEPT !.tables = @ \cup { TableOrder[i] : i \in 1..n }]

RECURSIVE DeleteAll(_, _)
\* DELETE FROM docs; DELETE FROM sections; ...
DeleteAll(store, i) ==
    IF i > Len(TableOrder) THEN store
    ELSE DeleteAll(WithoutRows(store, TableOrder[i]), i + 1)

WeightCap == 10

InsertKeywordAgain(store, row) ==
    [store EXCEPT !.keywords =
         Append(@, [id |-> Len(store.keywords) + 1,
                    term |-> row.category,
                    category |-> row.category,
                    weight |-> IF row.count < WeightCap THEN row.count
                               ELSE WeightCap])]

\* INSERT OR IGNORE INTO keywords (term, category, weight): term is UNIQUE, id
\* is the rowid
InsertKeyword(store, row) ==
    IF \E i \in 1..Len(store.keywords) : store.keywords[i].term = row.category
    THEN store
    ELSE [store EXCEPT !.keywords =
              Append(@, [id |-> Len(store.keywords) + 1,
                         term |-> row.category,
                         category |-> row.category,
                         weight |-> IF row.count < WeightCap THEN row.count
                                    ELSE WeightCap])]

\* keywordMap.get(category) after SELECT id, term, category FROM keywords;
\* 0 stands for undefined
KeywordId(store, category) ==
    LET ids == { store.keywords[i].id : i \in
                     { j \in 1..Len(store.keywords) :
                           store.keywords[j].category = category } }
    IN  IF ids = {} THEN 0 ELSE Max(ids)

\* if (keywordId) INSERT INTO node_keywords (node_id, keyword_id, count, match_score)
InsertNodeKeyword(store, row) ==
    IF KeywordId(store, row.category) = 0 THEN store
    ELSE [store EXCEPT !.node_keywords =
              Append(@, [node_id |-> row.nodeId,
                         keyword_id |-> KeywordId(store, row.category),
                         count |-> row.count,
                         match_score |-> row.score])]

\* one run of a prepared INSERT
InsertInto(store, table, row) ==
    CASE table = "docs" -> [store EXCEPT !.docs = Append(@, row)]
      [] table = "sections" -> [store EXCEPT !.sections = Append(@, row)]
      [] table = "relationships" -> [store EXCEPT !.relationships = Append(@, row)]
      [] table = "keywords" -> InsertKeyword(store, row)
      [] table = "node_keywords" -> InsertNodeKeyword(store, row)

\* the (node, category) pairs processKeywordsBatch loops over, twice
KeywordRows(keywordsToProcess) ==
    Flatten([i \in 1..Len(keywordsToProcess) |->
                [k \in 1..Len(keywordsToProcess[i].categories) |->
                    [nodeId |-> keywordsToProcess[i].nodeId,
                     category |-> keywordsToProcess[i].categories[k].category,
                     count |-> keywordsToProcess[i].categories[k].count,
                     score |-> keywordsToProcess[i].categories[k].score]]])

----------------------------------------------------------------------------
(* createCategoryIndex *)

RECURSIVE SumOver(_, _)
SumOver(S, f) ==
    IF S = {} THEN 0
    ELSE LET x == CHOOSE x \in S : TRUE IN f[x] + SumOver(S \ {x}, f)

KeywordIndex(store, id) ==
    (CHOOSE i \in 1..Len(store.keywords) : store.keywords[i].id = id)

\* the rows of node_keywords of one node and one category
ScoreRows(store, node, category) ==
    { i \in 1..Len(store.node_keywords) :
          /\ store.node_keywords[i].node_id = node
          /\ store.keywords[KeywordIndex(store,
                 store.node_keywords[i].keyword_id)].category = category }

KeywordNodes(store) ==
    { store.node_keywords[i].node_id : i \in 1..Len(store.node_keywords) }

\* category_count of the view node_primary_category: SUM(nk.count) of the group
CategoryCount(store, node, category) ==
    SumOver(ScoreRows(store, node, category),
            [i \in 1..Len(store.node_keywords) |-> store.node_keywords[i].count])

\* the categories of the view's rows for the node
CategoriesOfNode(store, node) ==
    { c \in Categories : ScoreRows(store, node, c) # {} }

\* the categories ROW_NUMBER() ... ORDER BY category_count DESC may number 1:
\* SQL leaves the order of rows with equal category_count open
TopCategories(store, node) ==
    { c \in CategoriesOfNode(store, node) :
          \A d \in CategoriesOfNode(store, node) :
              CategoryCount(store, node, d) <= CategoryCount(store, node, c) }

RECURSIVE Product(_)
\* the functions that pick, for each x of the domain of f, one element of f[x]
Product(f) ==
    IF DOMAIN f = {} THEN { <<>> }
    ELSE LET x == CHOOSE x \in DOMAIN f : TRUE
             rest == Product([y \in DOMAIN f \ {x} |-> f[y]])
         IN  { (x :> v) @@ g : v \in f[x], g \in rest }

\* the possible outcomes of the rank = 1 filter: one category per node
RankOneChoices(store) ==
    Product([n \in KeywordNodes(store) |-> TopCategories(store, n)])

AnyOrder(choice, known) == TRUE

\* the numbering agrees with the one the same query gave for the same rows
SameOrder(choice, known) ==
    \A n \in DOMAIN choice \cap DOMAIN known : choice[n] = known[n]

\* node_id LIKE '%#%'
HasHash(id) == \E i \in 1..Len(id) : id[i] = "#"

\* the categories in the order of the BINARY collation
CategoryCollation == <<"Integration", "User Management">>

CategoryRank(c) ==
    CHOOSE i \in 1..Len(CategoryCollation) : CategoryCollation[i] = c

CharOrder ==
    <<"\t", "\n", " ", "#", "(", ")", "-", ".", ">", "A", "B", "G", "S", "U",
      "[", "]", "a", "b", "c", "d", "e", "f", "g", "h", "i", "j", "k", "l", "m",
      "n", "o", "p", "s", "t", "u", "x">>

CharRank(c) == CHOOSE i \in 1..Len(CharOrder) : CharOrder[i] = c

RECURSIVE StringLess(_, _)
\* memcmp order of two strings
StringLess(s, t) ==
    IF t = <<>> THEN FALSE
    ELSE IF s = <<>> THEN TRUE
    ELSE IF Head(s) = Head(t) THEN StringLess(Tail(s), Tail(t))
    ELSE CharRank(Head(s)) < CharRank(Head(t))

\* ORDER BY category, node_id
RowBefore(a, b) ==
    \/ CategoryRank(a.category) < CategoryRank(b.category)
    \/ a.category = b.category /\ StringLess(a.node_id, b.node_id)

RECURSIVE Ordered(_)
Ordered(S) ==
    IF S = {} THEN <<>>
    ELSE LET first == CHOOSE a \in S : \A b \in S \ {a} : RowBefore(a, b)
         IN  <<first>> \o Ordered(S \ {first})

\* SELECT node_id, category ... WHERE rank = 1 AND node_id [NOT] LIKE '%#%'
\* ORDER BY category, node_id
RankedRows(choice, wantSections) ==
    Ordered({ [node_id |-> n, category |-> choice[n]] :
                  n \in { m \in DOMAIN choice : HasHash(m) = wantSections } })

\* docsByCategory[category], sectionsByCategory[category] || []
NodesOf(rows, category) ==
    LET InCategory(r) == r.category = category
        picked == SelectSeq(rows, InCategory)
    IN  [i \in 1..Len(picked) |-> picked[i].node_id]

RECURSIVE KeysOf(_)
\* Object.keys(docsByCategory): the categories in the order of their first row
KeysOf(rows) ==
    IF rows = <<>> THEN <<>>
    ELSE LET Other(r) == r.category # Head(rows).category
         IN  <<Head(rows).category>> \o KeysOf(SelectSeq(Tail(rows), Other))

DocLimit == 10
SectionLimit == 5

NoSlice(seq, n) == seq

\* array.slice(0, n)
Slice(seq, n) == SubSeq(seq, 1, IF Len(seq) < n THEN Len(seq) ELSE n)

CategoryEdge(a, b) ==
    [source_id |-> a, target_id |-> b, relationship_type |-> "category"]

OneWay(a, b) == << CategoryEdge(a, b) >>

BothWays(a, b) == << CategoryEdge(a, b), CategoryEdge(b, a) >>

\* the rows inserted by the loops over i < j
PairEdges(limitedDocs) ==
    Flatten([i \in 1..Len(limitedDocs) |->
        Flatten([k \in 1..(Len(limitedDocs) - i) |->
            BothWays(limitedDocs[i], limitedDocs[i + k])])])

SectionEdgesOfAll(doc, sectionsInCategory) ==
    Flatten([i \in 1..Len(sectionsInCategory) |-> BothWays(doc, sectionsInCategory[i])])

\* the rows inserted for one document and the sections of other documents
SectionEdges(doc, sectionsInCategory) ==
    LET Other(section) == ~StartsWith(section, doc)
        limitedSections == Slice(SelectSeq(sectionsInCategory, Other), SectionLimit)
    IN  Flatten([i \in 1..Len(limitedSections) |-> BothWays(doc, limitedSections[i])])

\* the rows inserted for one category
EdgesOfCategory(category, docRows, sectionRows) ==
    LET limitedDocs == Slice(NodesOf(docRows, category), DocLimit)
    IN  PairEdges(limitedDocs)
            \o Flatten([i \in 1..Len(limitedDocs) |->
                   SectionEdges(limitedDocs[i], NodesOf(sectionRows, category))])

\* every row createCategoryIndex inserts, in order
AffinityEdges(docRows, sectionRows) ==
    LET keys == KeysOf(docRows)
    IN  Flatten([i \in 1..Len(keys) |-> EdgesOfCategory(keys[i], docRows, sectionRows)])

----------------------------------------------------------------------------
(* extractGraphData: the projection the visualization server sends to the   *)
(* browser, read from the committed rows of docs.db                         *)

\* the answer before any request, and the answer with status 500
NoGraph == [status |-> 0, nodes |-> <<>>, links |-> <<>>]
FailedGraph == [status |-> 500, nodes |-> <<>>, links |-> <<>>]

\* the four SELECTs find their tables; the view node_primary_category is
\* there after every run that got to its end
Readable(store) ==
    {"docs", "sections", "relationships", "keywords", "node_keywords"}
        \subseteq store.tables

\* the categories of the view's rows of one node in an order that
\* ORDER BY node_id, category_count DESC allows: rows of equal count come in
\* any order
CategoryOrders(store, node) ==
    LET cs == CategoriesOfNode(store, node)
        n == Cardinality(cs)
    IN  { sq \in [1..n -> cs] :
            /\ \A i, j \in 1..n : i # j => sq[i] # sq[j]
            /\ \A i \in 1..n : \A j \in (i + 1)..n :
                   CategoryCount(store, node, sq[j])
                       <= CategoryCount(store, node, sq[i]) }

\* the possible contents of the map nodeCategories
NodeCategoryChoices(store) ==
    Product([n \in KeywordNodes(store) |-> CategoryOrders(store, n)])

\* nodeCategories.get(id) || []
CategoriesGet(nodeCategories, id) ==
    IF id \in DOMAIN nodeCategories THEN nodeCategories[id] ELSE <<>>

\* categories.length > 0 ? categories[0].category : null
PrimaryOf(cats) == IF cats = <<>> THEN Null ELSE <<cats[1]>>

\* a value that && and || take as false
Falsy(v) == v = Null \/ v = <<>>

DocNode(doc, nodeCategories) ==
    [id |-> doc.path,
     name |-> IF Falsy(doc.title) THEN doc.path ELSE doc.title,
     group |-> "document",
     categories |-> CategoriesGet(nodeCategories, doc.path),
     primaryCategory |-> PrimaryOf(CategoriesGet(nodeCategories, doc.path))]

SectionNode(section, nodeCategories) ==
    [id |-> section.section_id,
     name |-> section.title,
     group |-> "section",
     categories |-> CategoriesGet(nodeCategories, section.section_id),
     primaryCategory |-> PrimaryOf(CategoriesGet(nodeCategories, section.section_id))]

\* the keys of nodeMap once the documents and the first i sections are added
NodeMapKeys(store, i) ==
    { store.docs[d].path : d \in 1..Len(store.docs) }
        \cup { store.sections[k].section_id : k \in 1..i }

GraphLink(source, target, type) ==
    [source |-> source, target |-> target, type |-> type]

\* the links pushed while section i is added
LinksOfSection(store, i) ==
    LET section == store.sections[i]
        keys == NodeMapKeys(store, i)
    IN  (IF section.doc_path \in keys
         THEN << GraphLink(section.doc_path, section.section_id, "contains") >>
         ELSE <<>>)
        \o (IF ~Falsy(section.parent_id) /\ section.parent_id \in keys
            THEN << GraphLink(section.parent_id, section.section_id, "parent-child") >>
            ELSE <<>>)

\* relationships.forEach: a row is copied when both its ends are nodes
LinksOfRelationships(store) ==
    LET keys == NodeMapKeys(store, Len(store.sections))
        BothKnown(rel) == rel.source_id \in keys /\ rel.target_id \in keys
        kept == SelectSeq(store.relationships, BothKnown)
    IN  [i \in 1..Len(kept) |->
            GraphLink(kept[i].source_id, kept[i].target_id, kept[i].relationship_type)]

extractGraphData(store, nodeCategories) ==
    [status |-> 200,
     nodes |-> [i \in 1..Len(store.docs) |-> DocNode(store.docs[i], nodeCategories)]
               \o [i \in 1..Len(store.sections) |->
                      SectionNode(store.sections[i], nodeCategories)],
     links |-> Flatten([i \in 1..Len(store.sections) |-> LinksOfSection(store, i)])
               \o LinksOfRelationships(store)]

----------------------------------------------------------------------------
(* Spec: runs of main over a corpus, one after the other on the same        *)
(* database file. Any statement sent to the database may fail.              *)

MaxFiles == 2

Letters == <<"a", "b", "c", "d", "e", "f", "g", "h", "i", "j", "k", "l", "m", "n">>

\* a.md, b.md, c.md, ...
FileNames == [i \in 1..Len(Letters) |-> <<Letters[i], ".", "m", "d">>]

\* "# Guide\n## Setup\ncontent\n## Usage\ncontent"
GuideDoc ==
    Join(<< <<"#", " ", "G", "u", "i", "d", "e">>,
            <<"#", "#", " ", "S", "e", "t", "u", "p">>,
            <<"c", "o", "n", "t", "e", "n", "t">>,
            <<"#", "#", " ", "U", "s", "a", "g", "e">>,
            <<"c", "o", "n", "t", "e", "n", "t">> >>, Str1(NL))

\* "# t\na b"
TieDoc == Join(<< <<"#", " ", "t">>, <<"a", " ", "b">> >>, Str1(NL))

\* "b b a\n## s\nb"
IntegrationDoc ==
    Join(<< <<"b", " ", "b", " ", "a">>, <<"#", "#", " ", "s">>, <<"b">> >>, Str1(NL))

\* "## S\nab [x](a.md)\n## s\na a"
LinkDoc ==
    Join(<< <<"#", "#", " ", "S">>,
            <<"a", "b", " ", "[", "x", "]", "(", "a", ".", "m", "d", ")">>,
            <<"#", "#", " ", "s">>,
            <<"a", " ", "a">> >>, Str1(NL))

DocPool == {GuideDoc, TieDoc, IntegrationDoc, LinkDoc}

\* the markdown files of the docs directory with what reading each gives
Corpora ==
    UNION { { [i \in 1..n |-> [name |-> FileNames[i], content |-> c[i]]] :
                  c \in [1..n -> DocPool \cup {Unreadable}] } : n \in 0..MaxFiles }

SectionsIdle == content = <<>> /\ sections = <<>> /\ ppc = "idle"
CategoriesIdle == text = <<>> /\ categories = <<>> /\ cpc = "idle"
LinksIdle == markdown = <<>> /\ linkRows = <<>> /\ lpc = "idle"

NoTransaction == [open |-> FALSE, store |-> FreshDb]
NoRanking == [docCategories |-> <<>>, sectionCategories |-> <<>>]

\* the rows the loop at pc inserts
Pending ==
    CASE pc = "docs" -> batch.docsToInsert
      [] pc = "sections" -> batch.sectionsToInsert
      [] pc = "relationships" -> batch.relationshipsToInsert
      [] pc = "keywords" -> KeywordRows(batch.keywordsToProcess)
      [] pc = "node_keywords" -> KeywordRows(batch.keywordsToProcess)
      [] pc = "category" ->
             AffinityEdges(ranked.docCategories, ranked.sectionCategories)
      [] OTHER -> <<>>

TableAt == IF pc = "category" THEN "relationships" ELSE pc

AfterLoop ==
    CASE pc = "docs" -> "sections"
      [] pc = "sections" -> "relationships"
      [] pc = "relationships" -> "keywords"
      [] pc = "keywords" -> "node_keywords"
      [] pc = "node_keywords" -> "commit"
      [] pc = "category" -> "commit2"

Idle == UNCHANGED <<sectionVars, categoryVars, linkVars>>

Init ==
    /\ files \in Corpora
    /\ db = FreshDb
    /\ tx = NoTransaction
    /\ pc = "idle"
    /\ cursor = 0
    /\ batch = EmptyBatch
    /\ ranked = NoRanking
    /\ outcome = "none"
    /\ rolledBack = FALSE
    /\ startDb = FreshDb
    /\ graph = NoGraph
    /\ tieBreak = <<>>
    /\ SectionsIdle
    /\ CategoriesIdle
    /\ LinksIdle

\* node build-search-db.js
StartRun ==
    /\ pc = "idle"
    /\ pc' = "drop"
    /\ cursor' = 1
    /\ batch' = EmptyBatch
    /\ ranked' = NoRanking
    /\ outcome' = "running"
    /\ rolledBack' = FALSE
    /\ startDb' = db
    /\ graph' = NoGraph
    /\ UNCHANGED <<files, db, tx, tieBreak>>
    /\ Idle

\* initializeDb: DROP TABLE IF EXISTS, one statement at a time
DropTable ==
    /\ pc = "drop"
    /\ db' = DropTableIfExists(db, TableOrder[cursor])
    /\ IF cursor < Len(TableOrder)
       THEN cursor' = cursor + 1 /\ pc' = pc
       ELSE cursor' = 0 /\ pc' = "create"
    /\ UNCHANGED <<files, tx, batch, ranked, outcome, rolledBack, startDb, graph, tieBreak>>
    /\ Idle

\* initializeDb: the CREATE statements
CreateSchema ==
    /\ pc = "create"
    /\ db' = CreateTables(db, Len(TableOrder))
    /\ pc' = "clear"
    /\ UNCHANGED <<files, tx, cursor, batch, ranked, outcome, rolledBack, startDb, graph, tieBreak>>
    /\ Idle

\* main's catch: console.error and process.exit(1)
Exit1 ==
    /\ pc' = "idle"
    /\ cursor' = 0
    /\ outcome' = "failed"

\* one of the CREATE statements fails: those before it have taken effect
CreateSchemaFails ==
    /\ pc = "create"
    /\ \E n \in 0..(Len(TableOrder) - 1) : db' = CreateTables(db, n)
    /\ Exit1
    /\ UNCHANGED <<files, tx, batch, ranked, rolledBack, startDb, graph, tieBreak>>
    /\ Idle

\* main: DELETE FROM each table
ClearTables ==
    /\ pc = "clear"
    /\ db' = DeleteAll(db, 1)
    /\ pc' = "files"
    /\ UNCHANGED <<files, tx, cursor, batch, ranked, outcome, rolledBack, startDb, graph, tieBreak>>
    /\ Idle

\* a statement outside a try block fails: the error reaches main's catch
StatementFails ==
    /\ pc \in {"drop", "clear", "begin", "view", "query", "begin2", "stats"}
    /\ Exit1
    /\ UNCHANGED <<files, db, tx, batch, ranked, rolledBack, startDb, graph, tieBreak>>
    /\ Idle

\* processAllFiles: the loop over the markdown files
ReadFiles ==
    /\ pc = "files"
    /\ batch' = BatchOf(files)
    /\ pc' = "begin"
    /\ UNCHANGED <<files, db, tx, cursor, ranked, outcome, rolledBack, startDb, graph, tieBreak>>
    /\ Idle

\* BEGIN TRANSACTION, in processAllFiles and in createCategoryIndex
Begin ==
    /\ pc \in {"begin", "begin2"}
    /\ tx' = [open |-> TRUE, store |-> db]
    /\ pc' = IF pc = "begin" THEN "docs" ELSE "category"
    /\ cursor' = 1
    /\ UNCHANGED <<files, db, batch, ranked, outcome, rolledBack, startDb, graph, tieBreak>>
    /\ Idle

InLoop == pc \in {"docs", "sections", "relationships", "keywords",
                  "node_keywords", "category"}

\* stmt.run(...) for the next row of the loop
InsertRow ==
    /\ InLoop
    /\ cursor <= Len(Pending)
    /\ tx' = [tx EXCEPT !.store = InsertInto(@, TableAt, Pending[cursor])]
    /\ cursor' = cursor + 1
    /\ UNCHANGED <<files, db, pc, batch, ranked, outcome, rolledBack, startDb, graph, tieBreak>>
    /\ Idle

\* stmt.finalize() after the loop
Finalize ==
    /\ InLoop
    /\ cursor > Len(Pending)
    /\ pc' = AfterLoop
    /\ cursor' = IF AfterLoop \in {"commit", "commit2"} THEN 0 ELSE 1
    /\ UNCHANGED <<files, db, tx, batch, ranked, outcome, rolledBack, startDb, graph, tieBreak>>
    /\ Idle

CommitLost ==
    /\ pc \in {"commit", "commit2"}
    /\ tx' = NoTransaction
    /\ pc' = IF pc = "commit" THEN "view" ELSE "stats"
    /\ UNCHANGED <<files, db, cursor, batch, ranked, outcome, rolledBack, startDb, graph,
                   tieBreak>>
    /\ Idle

\* COMMIT
Commit ==
    /\ pc \in {"commit", "commit2"}
    /\ db' = tx.store
    /\ tx' = NoTransaction
    /\ pc' = IF pc = "commit" THEN "view" ELSE "stats"
    /\ UNCHANGED <<files, cursor, batch, ranked, outcome, rolledBack, startDb, graph, tieBreak>>
    /\ Idle

\* processAllFiles: a statement of the try block fails; ROLLBACK and throw
ProcessAllFilesCatch ==
    /\ pc \in {"docs", "sections", "relationships", "keywords", "node_keywords",
               "commit"}
    /\ tx' = NoTransaction
    /\ rolledBack' = TRUE
    /\ Exit1
    /\ UNCHANGED <<files, db, batch, ranked, startDb, graph, tieBreak>>
    /\ Idle

\* createCategoryIndex: DROP VIEW IF EXISTS; CREATE VIEW node_primary_category
CreateView ==
    /\ pc = "view"
    /\ pc' = "query"
    /\ UNCHANGED <<files, db, tx, cursor, batch, ranked, outcome, rolledBack, startDb, graph, tieBreak>>
    /\ Idle

\* createCategoryIndex: the two SELECTs of the rank 1 rows; which of several
\* equally counted categories of a node is numbered 1 is left to SQLite
QueryPrimary ==
    /\ pc = "query"
    /\ \E choice \in RankOneChoices(db) :
           ranked' = [docCategories |-> RankedRows(choice, FALSE),
                      sectionCategories |-> RankedRows(choice, TRUE)]
    /\ pc' = "begin2"
    /\ UNCHANGED <<files, db, tx, cursor, batch, outcome, rolledBack, startDb, graph,
                   tieBreak>>
    /\ Idle

\* the nodes whose highest count is shared by several categories: only for
\* these does the numbering depend on SQLite's order among equal rows
Tied(store, choice) ==
    [n \in {m \in DOMAIN choice : Cardinality(TopCategories(store, m)) > 1} |-> choice[n]]

\* the same two SELECTs run by one build of SQLite: on tables that hold the
\* same rows, inserted in the same order, it numbers equal rows as it did before
QueryPrimarySameBuild ==
    /\ pc = "query"
    /\ \E choice \in RankOneChoices(db) :
           /\ SameOrder(choice, tieBreak)
           /\ ranked' = [docCategories |-> RankedRows(choice, FALSE),
                         sectionCategories |-> RankedRows(choice, TRUE)]
           /\ tieBreak' = Tied(db, choice) @@ tieBreak
    /\ pc' = "begin2"
    /\ UNCHANGED <<files, db, tx, cursor, batch, outcome, rolledBack, startDb, graph>>
    /\ Idle

CatchWithoutRollback ==
    /\ pc \in {"category", "commit2"}
    /\ pc' = "stats"
    /\ cursor' = 0
    /\ UNCHANGED <<files, db, tx, batch, ranked, outcome, rolledBack, startDb, graph,
                   tieBreak>>
    /\ Idle

\* createCategoryIndex: a statement of the try block fails; ROLLBACK and
\* console.error, the function goes on
CreateCategoryIndexCatch ==
    /\ pc \in {"category", "commit2"}
    /\ tx' = NoTransaction
    /\ rolledBack' = TRUE
    /\ pc' = "stats"
    /\ cursor' = 0
    /\ UNCHANGED <<files, db, batch, ranked, outcome, startDb, graph, tieBreak>>
    /\ Idle

\* createCategoryIndex: the statistics query; main: db.close() and the
\* message 'Search database built successfully!'
Finish ==
    /\ pc = "stats"
    /\ pc' = "idle"
    /\ outcome' = "success"
    /\ startDb' = db
    /\ UNCHANGED <<files, db, tx, cursor, batch, ranked, rolledBack, graph, tieBreak>>
    /\ Idle

\* GET /api/graph-data, asked before the first run of the builder or after a
\* run that ended with exit code 0: the answer is the graph, or status 500
\* when a SELECT throws. One request is recorded per state of the database:
\* a second one has the same possible answers.
GraphData ==
    /\ pc = "idle"
    /\ outcome \in {"none", "success"}
    /\ graph = NoGraph
    /\ IF Readable(db)
       THEN \E nodeCategories \in NodeCategoryChoices(db) :
                graph' = extractGraphData(db, nodeCategories)
       ELSE graph' = FailedGraph
    /\ UNCHANGED <<files, db, tx, pc, cursor, batch, ranked, outcome, rolledBack, startDb,
                   tieBreak>>
    /\ Idle

Next ==
    \/ StartRun
    \/ DropTable
    \/ CreateSchema
    \/ CreateSchemaFails
    \/ ClearTables
    \/ StatementFails
    \/ ReadFiles
    \/ Begin
    \/ InsertRow
    \/ Finalize
    \/ Commit
    \/ ProcessAllFilesCatch
    \/ CreateView
    \/ QueryPrimary
    \/ CreateCategoryIndexCatch
    \/ Finish
    \/ GraphData

Spec == Init /\ [][Next]_vars

\* runs of one build of SQLite in which no statement fails: each run goes from
\* initializeDb to the closing message
NextRerun ==
    \/ StartRun
    \/ DropTable
    \/ CreateSchema
    \/ ClearTables
    \/ ReadFiles
    \/ Begin
    \/ InsertRow
    \/ Finalize
    \/ Commit
    \/ CreateView
    \/ QueryPrimarySameBuild
    \/ Finish
    \/ GraphData

SpecRerun == Init /\ [][NextRerun]_vars

RunIdle ==
    /\ files = <<>>
    /\ db = FreshDb
    /\ tx = NoTransaction
    /\ pc = "off"
    /\ cursor = 0
    /\ batch = EmptyBatch
    /\ ranked = NoRanking
    /\ outcome = "none"
    /\ rolledBack = FALSE
    /\ startDb = FreshDb
    /\ graph = NoGraph
    /\ tieBreak = <<>>

----------------------------------------------------------------------------
(* SpecGroups: runs of main over corpora of many one-line files, so that a   *)
(* category has more documents than createCategoryIndex connects.           *)

MaxGroup == 12

\* the size of the smallest group
SmallGroup == 2

\* the second file of the listing, when the corpus has a file of another
\* category
OtherAt == 2

\* na files "a", matched by User Management alone, and nb files "b", matched
\* by Integration alone, named in the order of the alphabet
GroupCorpus(na, nb) ==
    [i \in 1..(na + nb) |->
        [name |-> FileNames[i],
         content |-> IF nb = 1 /\ i = OtherAt THEN Str1("b") ELSE Str1("a")]]

\* Array.prototype.reverse, for a directory listed from z to a
Reversed(seq) == [i \in 1..Len(seq) |-> seq[Len(seq) + 1 - i]]

\* two files of one category and one of the other; more files of one
\* category than DocLimit, listed backwards; the most files of one category
\* and one of the other
GroupCorpora ==
    { GroupCorpus(SmallGroup, 1), GroupCorpus(MaxGroup, 1) }
        \cup { Reversed(GroupCorpus(na, 0)) : na \in (DocLimit + 1)..MaxGroup }

InitGroups ==
    /\ files \in GroupCorpora
    /\ db = FreshDb
    /\ tx = NoTransaction
    /\ pc = "idle"
    /\ cursor = 0
    /\ batch = EmptyBatch
    /\ ranked = NoRanking
    /\ outcome = "none"
    /\ rolledBack = FALSE
    /\ startDb = FreshDb
    /\ graph = NoGraph
    /\ tieBreak = <<>>
    /\ SectionsIdle
    /\ CategoriesIdle
    /\ LinksIdle

SpecGroups == InitGroups /\ [][Next]_vars

----------------------------------------------------------------------------
(* SpecSections: extractSections applied to every text of up to MaxLines   *)
(* lines drawn from LinePool.                                              *)

MaxLines == 4

Hashes(n) == [i \in 1..n |-> "#"]
HeaderLine(n, title) == Hashes(n) \o Str1(" ") \o title

LinePool ==
    { HeaderLine(1, Str1("a")),
      HeaderLine(2, Str1("a")),
      HeaderLine(2, Str1("b")),
      HeaderLine(3, Str1("b")),
      HeaderLine(6, Str1("a")),
      Str3("#", " ", " "),
      Str1("#"),
      HeaderLine(7, Str1("a")),
      Str1("c"),
      <<>> }

Texts ==
    { Join(ls, Str1(NL)) : ls \in UNION { [1..n -> LinePool] : n \in 1..MaxLines } }

InitSections ==
    /\ content \in Texts
    /\ sections = <<>>
    /\ ppc = "input"
    /\ CategoriesIdle
    /\ LinksIdle
    /\ RunIdle

Parse ==
    /\ ppc = "input"
    /\ sections' = extractSections(content)
    /\ ppc' = "done"
    /\ UNCHANGED <<content, categoryVars, linkVars, runVars>>

NextSections == Parse

SpecSections == InitSections /\ [][NextSections]_vars

----------------------------------------------------------------------------
(* SpecCategories: extractCategories applied to every text made of up to    *)
(* MaxTextLen characters of Alphabet followed by a run of blanks, the runs  *)
(* chosen so that the lengths around 100 * count^2 occur.                   *)

MaxTextLen == 4
MaxCount == 3

Alphabet == {"a", "A", "b", " "}

Blanks(n) == [i \in 1..n |-> " "]

\* the text length from which `count` matches no longer score 1
Threshold(count) == ScoreScale * count * count

PadLengths ==
    {0} \cup ((Threshold(1) - MaxTextLen)..Threshold(1))
        \cup {Threshold(2) - 3, Threshold(2) - 2}

ShortTexts == UNION { [1..n -> Alphabet] : n \in 0..MaxTextLen }

InitCategories ==
    /\ text \in { s \o Blanks(n) : s \in ShortTexts, n \in PadLengths }
    /\ categories = <<>>
    /\ cpc = "input"
    /\ SectionsIdle
    /\ LinksIdle
    /\ RunIdle

Categorize ==
    /\ cpc = "input"
    /\ categories' = extractCategories(text)
    /\ cpc' = "done"
    /\ UNCHANGED <<text, sectionVars, linkVars, runVars>>

NextCategories == Categorize

SpecCategories == InitCategories /\ [][NextCategories]_vars

----------------------------------------------------------------------------
(* SpecLinks: the link rows processAllFiles pushes for one file, for every  *)
(* content made of up to MaxPieces pieces of PiecePool.                     *)

MaxPieces == 4

PiecePool ==
    { Str3("[", "x", "]"),
      <<"(", "a", ".", "m", "d", ")">>,
      <<"(", "h", "t", "t", "p", ".", "m", "d", ")">>,
      Str3("(", "a", ")"),
      Str1("["),
      Str1("]"),
      Str1("("),
      Str1(")"),
      Str1("x") }

Contents ==
    { Flatten(ps) : ps \in UNION { [1..n -> PiecePool] : n \in 0..MaxPieces } }

\* the relative path of the file
LinkSource == <<"a", ".", "m", "d">>

InitLinks ==
    /\ markdown \in Contents
    /\ linkRows = <<>>
    /\ lpc = "input"
    /\ SectionsIdle
    /\ CategoriesIdle
    /\ RunIdle

\* const links = findInternalLinks(content); for (const link of links)
\* relationshipsToInsert.push(...)
PushLinks ==
    /\ lpc = "input"
    /\ linkRows' = LET links == findInternalLinks(markdown)
                   IN  [i \in 1..Len(links) |-> LinkRelationship(LinkSource, links[i])]
    /\ lpc' = "done"
    /\ UNCHANGED <<markdown, sectionVars, categoryVars, runVars>>

NextLinks == PushLinks

SpecLinks == InitLinks /\ [][NextLinks]_vars

----------------------------------------------------------------------------
(* Properties of extractSections *)

RECURSIVE SortedSeq(_)
\* the members of a set of numbers, ascending
SortedSeq(S) ==
    IF S = {} THEN <<>>
    ELSE LET m == Max(S) IN Append(SortedSeq(S \ {m}), m)

Lines == SplitLines(content)

HeaderIndexes == { i \in 1..Len(Lines) : headerMatch(Lines[i]) }

\* the header lines directly followed by a line that is no header, 0 standing
\* for the text before the first header when the text does not start with one
WithBody ==
    { i \in HeaderIndexes : i < Len(Lines) /\ ~headerMatch(Lines[i + 1]) }
        \cup (IF headerMatch(Lines[1]) THEN {} ELSE {0})

LevelAt(i) == IF i = 0 THEN 0 ELSE headerLevel(Lines[i])
TitleAt(i) == IF i = 0 THEN <<>> ELSE headerTitle(Lines[i])

\* the nearest header line before line i whose level is strictly lower, 0 if none
NearestLower(i) ==
    LET lower == { j \in HeaderIndexes : j < i /\ LevelAt(j) < LevelAt(i) }
    IN  IF lower = {} THEN 0 ELSE Max(lower)

ParentAt(i) == IF NearestLower(i) = 0 THEN Null ELSE TitleAt(NearestLower(i))

\* C4: every returned section, taken with the header line it was opened by, has
\* as parent the title of the nearest preceding header line of strictly lower
\* level, and null exactly when there is no such line.
C4_ParentIsNearestLowerHeader ==
    ppc = "done" =>
        LET src == SortedSeq(WithBody)
        IN  /\ Len(sections) = Len(src)
            /\ \A k \in 1..Len(sections) :
                   /\ sections[k].level = LevelAt(src[k])
                   /\ sections[k].title = TitleAt(src[k])
                   /\ sections[k].parent_id = ParentAt(src[k])
                   /\ (sections[k].parent_id = Null) = (NearestLower(src[k]) = 0)
                   /\ NearestLower(src[k]) < src[k] \/ src[k] = 0

\* a section whose parent is not the header just before it: deeper headers in
\* between were popped
C4_Witness ==
    /\ ppc = "done"
    /\ \E k \in 1..Len(sections) :
           LET i == SortedSeq(WithBody)[k]
           IN  /\ Len(sections) = Cardinality(WithBody)
               /\ i > 2
               /\ sections[k].parent_id # Null
               /\ NearestLower(i) < i - 1
               /\ (i - 1) \in HeaderIndexes

\* C5: one section per header line, in header order, with the levels, titles
\* and nesting of the headers.
C5_OneSectionPerHeader ==
    ppc = "done" =>
        LET hdr == SortedSeq(HeaderIndexes)
        IN  /\ Len(sections) = Len(hdr)
            /\ \A k \in 1..Len(hdr) :
                   /\ sections[k].level = LevelAt(hdr[k])
                   /\ sections[k].title = TitleAt(hdr[k])
                   /\ sections[k].parent_id = ParentAt(hdr[k])

\* C6: a text without any header line yields no section.
C6_NoHeaderNoSection ==
    (ppc = "done" /\ HeaderIndexes = {}) => sections = <<>>

----------------------------------------------------------------------------
(* Properties of extractCategories *)

\* C8: every score is min(count / sqrt(max(textLength, 1) / 100), 1): it lies
\* in [0, 1], it is 1 whenever 100 * count^2 >= textLength and the exact
\* quotient otherwise, and more matches in a text of the same length never
\* score less.
C8_ScoreFormula ==
    cpc = "done" =>
        LET len == IF Len(text) > 1 THEN Len(text) ELSE 1
        IN  /\ \A k \in 1..Len(categories) :
                   LET e == categories[k]
                   IN  /\ e.count >= 1
                       /\ e.score.den > 0
                       /\ 0 <= e.score.num
                       /\ e.score.num <= e.score.den
                       /\ (100 * e.count * e.count >= len)
                              => e.score.num = e.score.den
                       /\ (100 * e.count * e.count < len)
                              => e.score.num * len = 100 * e.count * e.count * e.score.den
            /\ \A c \in 1..(MaxCount - 1) :
                   LessEq(Score(c, len), Score(c + 1, len))

\* two matches in a text long enough for them to score less than 1
C8_Witness ==
    /\ cpc = "done"
    /\ \E k \in 1..Len(categories) :
           /\ categories[k].count = 2
           /\ categories[k].score.num < categories[k].score.den

----------------------------------------------------------------------------
(* Properties of the runs *)

Range(seq) == { seq[i] : i \in 1..Len(seq) }

\* C1: a run that ends in a hard error leaves the rows that were committed
\* when it started.
C1_PreviousIndexIntact ==
    outcome = "failed" => Rows(db) = Rows(startDb)

\* C2: apart from the removal of the previous index by the DROP statements,
\* the rows a reader sees change at most once in a run, from none of the
\* run's rows to all of them.
C2_NoneOrAllVisible ==
    [][(pc # "drop" /\ Rows(db) # NoRows) => Rows(db') = Rows(db)]_vars

\* C3: a run in which a transaction was rolled back does not end reporting
\* success.
C3_RollbackIsFatal ==
    outcome = "success" => ~rolledBack

SectionsOfDoc(store, path) ==
    LET OfDoc(row) == row.doc_path = path IN SelectSeq(store.sections, OfDoc)

Setup == <<"S", "e", "t", "u", "p">>
Usage == <<"U", "s", "a", "g", "e">>

\* C7: the document "# Guide / ## Setup / content / ## Usage / content" is
\* stored with exactly the sections Setup and Usage, both with a null parent
\* and both joined to the document by a pair of `contains` rows.
C7_GuideScenario ==
    \A d \in Range(db.docs) :
        d.content = GuideDoc =>
            LET secs == SectionsOfDoc(db, d.path)
            IN  /\ Len(secs) = 2
                /\ secs[1].title = Setup
                /\ secs[2].title = Usage
                /\ \A k \in 1..2 :
                       /\ secs[k].parent_id = Null
                       /\ [source_id |-> d.path, target_id |-> secs[k].section_id,
                           relationship_type |-> "contains"]
                              \in Range(db.relationships)
                       /\ [source_id |-> secs[k].section_id, target_id |-> d.path,
                           relationship_type |-> "contains"]
                              \in Range(db.relationships)

\* the category declared first in the vocabulary among those of S
FirstDeclared(S) ==
    keywordCategories[Min({ i \in 1..Len(keywordCategories) :
                                keywordCategories[i].category \in S })].category

\* C9: the category a node is grouped under is the one with the highest count
\* for the node, the first in the vocabulary's order among equal counts.
C9_PrimaryByCountThenVocabulary ==
    \A r \in Range(ranked.docCategories) \cup Range(ranked.sectionCategories) :
        r.category = FirstDeclared(TopCategories(db, r.node_id))

\* C10: every committed section comes with a row from its document to it and
\* a row from it to its document.
C10_ContainmentBothWays ==
    \A s \in Range(db.sections) :
        /\ \E r \in Range(db.relationships) :
               r.source_id = s.doc_path /\ r.target_id = s.section_id
        /\ \E r \in Range(db.relationships) :
               r.source_id = s.section_id /\ r.target_id = s.doc_path

\* a finished run that committed the sections of two documents
C10_Witness ==
    /\ outcome = "success"
    /\ \E s, t \in Range(db.sections) : s.doc_path # t.doc_path

StoredEdge(a, b, type) ==
    [source_id |-> a, target_id |-> b, relationship_type |-> type]

\* C11: for every committed section, the row from its document to it and the
\* row from it to its document are both stored with the type `contains`.
C11_ContainmentTypedContains ==
    \A s \in Range(db.sections) :
        /\ StoredEdge(s.doc_path, s.section_id, "contains") \in Range(db.relationships)
        /\ StoredEdge(s.section_id, s.doc_path, "contains") \in Range(db.relationships)

\* the links of the answer of a given type that end at a given node
LinksInto(id, type) ==
    { i \in 1..Len(graph.links) :
          graph.links[i].type = type /\ graph.links[i].target = id }

\* C12: in the graph sent for the committed rows, every section with a
\* non-null parent is the target of exactly one `parent-child` link.
C12_OneParentChildEdge ==
    graph.status = 200 =>
        \A s \in Range(db.sections) :
            s.parent_id # Null =>
                Cardinality(LinksInto(s.section_id, "parent-child")) = 1

\* C15: after a run, both ends of every stored row of type `category` are
\* nodes with at least one category-score row.
C15_CategoryEdgesBetweenCategorized ==
    (pc = "idle" /\ outcome = "success") =>
        \A r \in Range(db.relationships) :
            r.relationship_type = "category" =>
                r.source_id \in KeywordNodes(db) /\ r.target_id \in KeywordNodes(db)

\* C16: when no run is under way, every stored row (a, b, category) has its
\* reverse (b, a, category) stored as well.
C16_CategoryRowsSymmetric ==
    pc = "idle" =>
        \A r \in Range(db.relationships) :
            r.relationship_type = "category" =>
                StoredEdge(r.target_id, r.source_id, "category")
                    \in Range(db.relationships)

\* a finished run that stored a category row between two documents
C16_Witness ==
    /\ pc = "idle"
    /\ outcome = "success"
    /\ \E r \in Range(db.relationships) :
           /\ r.relationship_type = "category"
           /\ ~HasHash(r.source_id)
           /\ ~HasHash(r.target_id)

\* the catalog rows of a category
CatalogRows(c) ==
    { i \in 1..Len(db.keywords) : db.keywords[i].category = c }

\* the (node, category) matches of the run, in the order of their insertion
Matches == KeywordRows(batch.keywordsToProcess)

\* C18: after a run, the catalog holds one row for each category that some
\* node matched and none for the others, and the i-th score row carries the
\* id of the catalog row of the i-th match's category.
C18_OneCatalogRowPerCategory ==
    (pc = "idle" /\ outcome = "success") =>
        /\ \A c \in Categories :
               Cardinality(CatalogRows(c)) =
                   IF \E m \in Range(Matches) : m.category = c THEN 1 ELSE 0
        /\ Len(db.node_keywords) = Len(Matches)
        /\ \A i \in 1..Len(Matches) :
               { db.keywords[k].id : k \in CatalogRows(Matches[i].category) }
                   = { db.node_keywords[i].keyword_id }

\* a finished run in which two nodes matched the same category
C18_Witness ==
    /\ pc = "idle"
    /\ outcome = "success"
    /\ \E i, j \in 1..Len(db.node_keywords) :
           /\ i # j
           /\ db.node_keywords[i].node_id # db.node_keywords[j].node_id
           /\ db.node_keywords[i].keyword_id = db.node_keywords[j].keyword_id

ReadableFiles == { i \in 1..Len(files) : files[i].content # Unreadable }
UnreadableNames ==
    { files[i].name : i \in { j \in 1..Len(files) : files[j].content = Unreadable } }

\* the section ids and document paths that belong to a file name
IsNodeOf(id, name) == id = name \/ StartsWith(id, name \o <<"#">>)

\* the batch holds the readable files, all of them, and nothing of the others
OnlyReadableInBatch ==
    /\ [i \in 1..Len(batch.docsToInsert) |-> batch.docsToInsert[i].path]
           = [i \in 1..Cardinality(ReadableFiles) |->
                 files[SortedSeq(ReadableFiles)[i]].name]
    /\ \A n \in UnreadableNames :
           /\ \A r \in Range(batch.sectionsToInsert) : r.doc_path # n
           /\ \A r \in Range(batch.relationshipsToInsert) :
                  /\ ~IsNodeOf(r.source_id, n)
                  /\ r.relationship_type # "link" => ~IsNodeOf(r.target_id, n)
           /\ \A r \in Range(batch.keywordsToProcess) : ~IsNodeOf(r.nodeId, n)

\* the committed rows are those of the batch
BatchPersisted ==
    /\ db.docs = batch.docsToInsert
    /\ db.sections = batch.sectionsToInsert
    /\ SubSeq(db.relationships, 1, Len(batch.relationshipsToInsert))
           = batch.relationshipsToInsert

\* C19: a file that cannot be read leaves nothing in the batch, the readable
\* files are all in it and are what a finished run has stored, and the loop
\* over the files always goes on to the insertion.
C19_UnreadableFileSkipped ==
    /\ [](pc \notin {"idle", "drop", "create", "clear", "files"} => OnlyReadableInBatch)
    /\ []((pc = "idle" /\ outcome = "success") => OnlyReadableInBatch /\ BatchPersisted)
    /\ [][pc = "files" => pc' = "begin"]_vars

\* a finished run over a corpus with a file that could not be read and one
\* that could
C19_Witness ==
    /\ pc = "idle"
    /\ outcome = "success"
    /\ UnreadableNames # {}
    /\ db.docs # <<>>

\* C20: the graph sent for the committed rows has as many nodes as there are
\* document and section rows and as many links as there are relationship
\* rows.
C20_ExportKeepsCounts ==
    graph.status = 200 =>
        /\ Len(graph.nodes) = Len(db.docs) + Len(db.sections)
        /\ Len(graph.links) = Len(db.relationships)

\* the index of the first c after position i of the content, 0 if there is none
FirstAfter(i, c) ==
    LET at == { j \in (i + 1)..Len(markdown) : markdown[j] = c }
    IN  IF at = {} THEN 0 ELSE Min(at)

\* the closing bracket and the closing parenthesis of the reference
\* [text](target) that starts at i
CloseText(i) == FirstAfter(i, "]")
CloseTarget(i) == FirstAfter(CloseText(i) + 1, ")")

\* a reference starts at i: "[", a text without "]", "](", a target
\* without ")", ")", text and target not empty
ReferenceAt(i) ==
    /\ markdown[i] = "["
    /\ CloseText(i) > i + 1
    /\ CloseText(i) < Len(markdown)
    /\ markdown[CloseText(i) + 1] = "("
    /\ CloseTarget(i) > CloseText(i) + 2

\* the references of the content read from left to right: those that do not
\* start inside a reference already read
References ==
    LET all == { i \in 1..Len(markdown) : ReferenceAt(i) }
    IN  CHOOSE R \in SUBSET all :
            \A i \in all :
                i \in R <=> ~\E h \in R : h < i /\ i <= CloseTarget(h)

TargetOf(i) == SubSeq(markdown, CloseText(i) + 2, CloseTarget(i) - 1)

\* the target ends in .md and does not start with http
Internal(target) ==
    LET n == Len(target)
    IN  /\ n >= 3
        /\ <<target[n - 2], target[n - 1], target[n]>> = <<".", "m", "d">>
        /\ ~(n >= 4 /\ <<target[1], target[2], target[3], target[4]>>
                            = <<"h", "t", "t", "p">>)

\* C17: the link rows of a file are, in the order of the text, one row from
\* the file to the target for each reference [text](target) whose target
\* ends in .md and does not start with http, and no other row.
C17_LinkRowsAreInternalReferences ==
    lpc = "done" =>
        LET internal == SortedSeq({ i \in References : Internal(TargetOf(i)) })
        IN  linkRows = [k \in 1..Len(internal) |->
                           StoredEdge(LinkSource, TargetOf(internal[k]), "link")]

\* a content with a reference that gives a row and one that gives none
C17_Witness ==
    /\ lpc = "done"
    /\ Len(linkRows) = 1
    /\ Cardinality(References) = 2

\* the documents grouped under a category by createCategoryIndex
PrimaryDocs(c) ==
    { r.node_id : r \in { q \in Range(ranked.docCategories) : q.category = c } }

\* the stored rows of type `category` between two documents of the group
DocDocRows(c) ==
    { i \in 1..Len(db.relationships) :
          /\ db.relationships[i].relationship_type = "category"
          /\ db.relationships[i].source_id \in PrimaryDocs(c)
          /\ db.relationships[i].target_id \in PrimaryDocs(c) }

\* the ten documents of the group that come first in the order of node ids
FirstTen(c) ==
    { d \in PrimaryDocs(c) :
          Cardinality({ e \in PrimaryDocs(c) : StringLess(e, d) }) < 10 }

AffinityDone == pc = "idle" /\ outcome = "success" /\ ~rolledBack

\* C13: after a run, a category with more than ten documents has at most 90
\* stored document-to-document `category` rows: one for each ordered pair of
\* the first ten documents of the group, none for the documents beyond.
C13_DocEdgesCapped ==
    AffinityDone =>
        \A c \in Categories :
            Cardinality(PrimaryDocs(c)) > 10 =>
                /\ Cardinality(DocDocRows(c)) <= 90
                /\ Cardinality(DocDocRows(c)) =
                       Cardinality({ p \in FirstTen(c) \X FirstTen(c) : p[1] # p[2] })
                /\ { <<db.relationships[i].source_id, db.relationships[i].target_id>> :
                         i \in DocDocRows(c) }
                       = { p \in FirstTen(c) \X FirstTen(c) : p[1] # p[2] }

\* a finished run over a corpus with a category of twelve documents
C13_Witness ==
    /\ AffinityDone
    /\ \E c \in Categories :
           Cardinality(PrimaryDocs(c)) = 12 /\ DocDocRows(c) # {}

\* the category a document is grouped under, Null if none
PrimaryCategoryOf(d) ==
    LET cs == { r.category : r \in { q \in Range(ranked.docCategories) : q.node_id = d } }
    IN  IF cs = {} THEN Null ELSE <<CHOOSE c \in cs : TRUE>>

\* the category is the primary category of no node of another document
SharedByNoOther(c, d) ==
    \A r \in Range(ranked.docCategories) \cup Range(ranked.sectionCategories) :
        r.category = c => IsNodeOf(r.node_id, d)

\* C14: when exactly two documents have the primary category X, one
\* `category` row is stored from each to the other, and no `category` row
\* has as an end a third document whose primary category is another one
\* that no node of another document has.
C14_TwoDocumentsOneCategory ==
    AffinityDone =>
        \A X \in Categories :
            Cardinality(PrimaryDocs(X)) = 2 =>
                /\ \A d, e \in PrimaryDocs(X) :
                       d # e =>
                           Cardinality({ i \in 1..Len(db.relationships) :
                               db.relationships[i] = StoredEdge(d, e, "category") }) = 1
                /\ \A t \in { db.docs[i].path : i \in 1..Len(db.docs) } :
                       ( /\ PrimaryCategoryOf(t) \notin {Null, <<X>>}
                         /\ SharedByNoOther(PrimaryCategoryOf(t)[1], t) ) =>
                           \A r \in Range(db.relationships) :
                               r.relationship_type = "category" =>
                                   r.source_id # t /\ r.target_id # t


----------------------------------------------------------------------------
(* Two runs in a row *)

----------------------------------------------------------------------------
(* Levels and contents of the sections extractSections returns *)

\* C22: every section extractSections returns has a level from 1 to 6, also
\* when the text has body lines before its first header.
C22_LevelsOneToSix ==
    ppc = "done" =>
        \A k \in 1..Len(sections) : sections[k].level \in 1..MaxHeaderLevel

NotHeader(line) == ~headerMatch(line)

\* the lines of the text that are no header lines, in order
BodyLines == SelectSeq(Lines, NotHeader)

\* the first header line after line i, of any level; past the end if none
NextHeader(i) ==
    Min({ j \in HeaderIndexes : j > i } \cup {Len(Lines) + 1})

\* the first header line after line i whose level is at most that of line i
NextHeaderUpTo(i) ==
    Min({ j \in HeaderIndexes : j > i /\ LevelAt(j) <= LevelAt(i) } \cup {Len(Lines) + 1})

\* the non-header lines after line i and before line j, joined by newlines
BodyBetween(i, j) == Join(SelectSeq(SubSeq(Lines, i + 1, j - 1), NotHeader), Str1(NL))

\* C23: the content of a section opened by a header is the
\* non-header lines after that header up to the next header of the same or a
\* lower level; a deeper header in between does not end it.
C23_ContentUpToSameOrLowerLevel ==
    ppc = "done" =>
        LET src == SortedSeq(WithBody)
        IN  /\ Len(sections) = Len(src)
            /\ \A k \in 1..Len(sections) :
                   src[k] > 0 =>
                       sections[k].content = BodyBetween(src[k], NextHeaderUpTo(src[k]))

\* what the loop does: a header line of any level closes currentSection, so
\* the content of a returned section is the non-header lines after its header
\* up to the next header line of any level, joined by newlines
ContentUpToNextHeader ==
    ppc = "done" =>
        LET src == SortedSeq(WithBody)
        IN  /\ Len(sections) = Len(src)
            /\ \A k \in 1..Len(sections) :
                   sections[k].content = BodyBetween(src[k], NextHeader(src[k]))

\* C27: the contents of the returned sections, split back into lines and put
\* one after the other, are the non-header lines of the text, each once and in
\* the order of the text.
C27_NoBodyLineLostOrDoubled ==
    ppc = "done" =>
        Flatten([k \in 1..Len(sections) |-> SplitLines(sections[k].content)]) = BodyLines

\* body lines before the first header and under a header
C27_Witness ==
    /\ ppc = "done"
    /\ 0 \in WithBody
    /\ Len(sections) >= 2
    /\ Len(BodyLines) >= 3
    /\ Flatten([k \in 1..Len(sections) |-> SplitLines(sections[k].content)]) = BodyLines

----------------------------------------------------------------------------
(* Parent references and the edges between documents and foreign sections *)

\* C24: the parent reference of every committed section is null or the
\* section id of a committed section of the same document.
C24_ParentIsPersistedSection ==
    \A i \in 1..Len(db.sections) :
        \/ db.sections[i].parent_id = Null
        \/ \E j \in 1..Len(db.sections) :
               /\ db.sections[j].doc_path = db.sections[i].doc_path
               /\ db.sections[j].section_id = db.sections[i].parent_id

\* the stored rows of type `category` from a document to a section that is
\* not one of its own
ForeignSectionRows(d) ==
    { i \in 1..Len(db.relationships) :
          /\ db.relationships[i].relationship_type = "category"
          /\ db.relationships[i].source_id = d
          /\ HasHash(db.relationships[i].target_id)
          /\ ~IsNodeOf(db.relationships[i].target_id, d) }

\* the category a section is grouped under, Null if none
PrimaryCategoryOfSection(n) ==
    LET cs == { r.category : r \in { q \in Range(ranked.sectionCategories) : q.node_id = n } }
    IN  IF cs = {} THEN Null ELSE <<CHOOSE c \in cs : TRUE>>

----------------------------------------------------------------------------
(* The order of the steps of a run and its transactions *)

\* the positions of createCategoryIndex
AffinityStep == {"view", "query", "begin2", "category", "commit2", "stats"}

\* the batch holds every readable file, and its documents, sections,
\* relationships and category scores are committed rows
ScoresCommitted ==
    LET readable == SortedSeq(ReadableFiles)
        matches == Matches
        scores == db.node_keywords
    IN  /\ Len(batch.docsToInsert) = Len(readable)
        /\ \A i \in 1..Len(readable) : batch.docsToInsert[i].path = files[readable[i]].name
        /\ { r.nodeId : r \in Range(batch.keywordsToProcess) }
               = { r.path : r \in Range(batch.docsToInsert) }
                     \cup { r.section_id : r \in Range(batch.sectionsToInsert) }
        /\ BatchPersisted
        /\ Len(scores) = Len(matches)
        /\ \A i \in 1..Len(matches) :
               /\ scores[i].node_id = matches[i].nodeId
               /\ scores[i].count = matches[i].count
               /\ scores[i].match_score = matches[i].score

\* C26: createCategoryIndex is entered, a primary category is read and an
\* affinity edge is inserted only when the category scores of every document
\* and section of the corpus are committed.
C26_AffinityAfterScoresCommitted ==
    ( \/ pc \in AffinityStep
      \/ ranked # NoRanking
      \/ Len(tx.store.relationships) > Len(batch.relationshipsToInsert) )
        => ScoresCommitted

\* the affinity step has inserted an edge, with the scores of several nodes
\* committed before
C26_Witness ==
    /\ pc = "category"
    /\ cursor > 1
    /\ Len(tx.store.relationships) > Len(batch.relationshipsToInsert)
    /\ Len(db.node_keywords) > 1
    /\ ScoresCommitted

\* the positions between a BEGIN TRANSACTION and the COMMIT or ROLLBACK
InTransaction ==
    {"docs", "sections", "relationships", "keywords", "node_keywords", "commit",
     "category", "commit2"}

\* C28: a transaction is open exactly between a BEGIN and the one COMMIT or
\* ROLLBACK that ends it: BEGIN is issued only when none is open, the step
\* that ends a transaction either commits or rolls back, no ROLLBACK is issued
\* without an open transaction, and none is open when the database is closed
\* or the process exits.
C28_TransactionsNeverNest ==
    /\ [](tx.open <=> pc \in InTransaction)
    /\ [][(pc \in {"begin", "begin2"} /\ pc' \in InTransaction)
             => (~tx.open /\ tx'.open)]_vars
    /\ [][(tx.open /\ ~tx'.open)
             => ( \/ (~rolledBack' /\ db' = tx.store)
                  \/ (rolledBack' /\ ~rolledBack /\ db' = db) )]_vars
    /\ [][(rolledBack' /\ ~rolledBack) => (tx.open /\ ~tx'.open)]_vars
    /\ [](pc \in {"stats", "idle"} => ~tx.open)

\* a run whose first transaction was committed and whose second one was
\* rolled back, at the statistics query
C28_Witness ==
    /\ pc = "stats"
    /\ rolledBack
    /\ ~tx.open
    /\ db.docs # <<>>

----------------------------------------------------------------------------
(* Score rows and the primary category of a node *)

\* C29: after a run, no two score rows have the same node id and the same
\* category, also when two sections of a document have the same section id.
C29_OneScoreRowPerNodeAndCategory ==
    (pc = "idle" /\ outcome = "success") =>
        \A i, j \in 1..Len(db.node_keywords) :
            ( /\ db.node_keywords[i].node_id = db.node_keywords[j].node_id
              /\ db.node_keywords[i].keyword_id = db.node_keywords[j].keyword_id )
                => i = j

\* the category createCategoryIndex grouped a node under, Null if none
GroupedUnder(n) ==
    LET rows == Range(ranked.docCategories) \cup Range(ranked.sectionCategories)
        cs == { r.category : r \in { q \in rows : q.node_id = n } }
    IN  IF cs = {} THEN Null ELSE <<CHOOSE c \in cs : TRUE>>

\* C30: the primary category the graph gives for a node is the category
\* createCategoryIndex grouped the node under in the run that wrote the rows.
C30_ExportPrimaryIsGroupingPrimary ==
    (AffinityDone /\ graph.status = 200) =>
        \A k \in 1..Len(graph.nodes) :
            graph.nodes[k].primaryCategory = GroupedUnder(graph.nodes[k].id)
====
